---- MODULE Spec2Model ----
(***************************************************************************)
(* Model of the reconciliation engine of Visualize-progress:               *)
(*   name_matching.py   normalize_text, find_best_match, get_match_score,  *)
(*                      get_name_similarity_score, apply_name_matching     *)
(*   progress_logic.py  create_progress_table and its four steps           *)
(*   progress_logic.py  create_timeline_dataframe                          *)
(*   data_loader.py     load_results_data: the credentials temp file, the  *)
(*                      extractor run and the actual records it builds     *)
(*                                                                         *)
(* Text is a sequence of characters, a character is a one-token string.    *)
(* Time is a number of minutes since midnight of the selected date (both   *)
(* loaders filter their rows to that one date).  A missing value (None,    *)
(* NaN, NaT) is a sentinel of the type of the field it stands in.          *)
(***************************************************************************)
EXTENDS Integers, Sequences, FiniteSets, TLC

VARIABLES
  pc,               \* position in create_progress_table
  plan_df,          \* input: plan records (load_plan_data)
  results_df,       \* input: actual records (load_results_data)
  master_df,        \* input: master catalog (load_product_master)
  name_master,      \* input: alias table (load_name_master)
  best_master_rows, \* what _find_best_master_for_plan returned, per plan row
  cleaned_plan_df,  \* output of _clean_plan_with_master
  merged_df,        \* output of _merge_plan_and_results
  final_df,         \* the frame create_progress_table is working on / returns
  raised,           \* the exception that ended the call, or "none"
  nows,             \* what datetime.now() returned in get_status, per classified row
  timeline_df,      \* output of create_timeline_dataframe
  original_text,    \* the argument of normalize_text
  normalized,       \* what successive calls of normalize_text returned
  temp_file_path,   \* load_results_data: the local temp_file_path
  temp_file,        \* the credentials temp file in record_exporter, on disk
  production_records \* rows of production_records.xlsx as the extractor leaves it

vars == <<pc, plan_df, results_df, master_df, name_master, best_master_rows,
          cleaned_plan_df, merged_df, final_df, raised, nows, timeline_df,
          original_text, normalized, temp_file_path, temp_file, production_records>>

----------------------------------------------------------------------------
(* Missing values *)

\* None / NaN in a text field (a float NaN or None, never a str)
NoName == <<"None">>
\* NaT in a timestamp field (no timestamp of the model is negative)
NaT == -99999
\* NaN in a numeric field (no number the model computes is this low)
NaN == -99999

IsStr(x) == x # NoName

----------------------------------------------------------------------------
(* Sequences *)

Range(s) == {s[i] : i \in 1..Len(s)}

\* Python's  t in s  for str: t is a contiguous part of s
IsSubstring(t, s) ==
  \E i \in 0..(Len(s) - Len(t)) : SubSeq(s, i + 1, i + Len(t)) = t

RECURSIVE FilterSeq(_, _)
\* the rows of s whose index is in the set keep, in order
FilterSeq(s, keep) ==
  IF s = <<>> THEN <<>>
  ELSE LET n == Len(s)
           front == FilterSeq(SubSeq(s, 1, n - 1), keep)
       IN IF n \in keep THEN Append(front, s[n]) ELSE front

----------------------------------------------------------------------------
(* name_matching.normalize_text *)

\* unicodedata.normalize('NFKC', .) on one character: a full-width letter
\* becomes its half-width form, everything else of the alphabet is unchanged
NFKCChar(c) ==
  CASE c = "FwA" -> "A"
    [] c = "FwB" -> "B"
    [] c = "FwHyphen" -> "-"
    [] OTHER -> c

\* canonical composition of a base letter and a following combining acute
Composed(base) ==
  CASE base = "a" -> "aAcute"
    [] base = "A" -> "AAcute"
    [] OTHER -> "none"

RECURSIVE ComposeSeq(_)
ComposeSeq(s) ==
  IF Len(s) < 2 THEN s
  ELSE IF s[2] = "Acute" /\ Composed(s[1]) # "none"
       THEN ComposeSeq(<<Composed(s[1])>> \o SubSeq(s, 3, Len(s)))
       ELSE <<s[1]>> \o ComposeSeq(SubSeq(s, 2, Len(s)))

NFKC(s) == ComposeSeq([i \in 1..Len(s) |-> NFKCChar(s[i])])

\* str.lower() on one character
LowerChar(c) ==
  CASE c = "A" -> "a"
    [] c = "B" -> "b"
    [] c = "AAcute" -> "aAcute"
    [] OTHER -> c

Lower(s) == [i \in 1..Len(s) |-> LowerChar(s[i])]

\* the characters re.sub(r'[\s\-,.()\[\]株式会社]', '', text) removes
StrippedChars == {" ", "-", ",", ".", "(", ")", "[", "]",
                  "Kabu", "Shiki", "Kai", "Sha"}

RECURSIVE StripSymbols(_)
StripSymbols(s) ==
  IF s = <<>> THEN <<>>
  ELSE IF s[1] \in StrippedChars
       THEN StripSymbols(Tail(s))
       ELSE <<s[1]>> \o StripSymbols(Tail(s))

normalize_text(text) ==
  IF ~IsStr(text) THEN <<>>
  ELSE StripSymbols(Lower(NFKC(text)))

----------------------------------------------------------------------------
(* name_matching.get_match_score *)

\* int(15 * (1 - d / m)) in IEEE double arithmetic, for 0 <= d < m <= 6
Float15 ==
  << <<15>>,
     <<15, 7>>,
     <<15, 10, 5>>,
     <<15, 11, 7, 3>>,
     <<15, 12, 9, 6, 2>>,
     <<15, 12, 10, 7, 5, 2>> >>

Abs(x) == IF x < 0 THEN -x ELSE x
Max(x, y) == IF x > y THEN x ELSE y

get_match_score(str1, str2) ==
  IF str1 = <<>> \/ str2 = <<>> THEN 0
  ELSE IF str1 = str2 THEN 100
  ELSE IF IsSubstring(str1, str2) \/ IsSubstring(str2, str1)
       THEN 85 + Float15[Max(Len(str1), Len(str2))][Abs(Len(str1) - Len(str2)) + 1]
       ELSE 0

----------------------------------------------------------------------------
(* name_matching.find_best_match *)

\* the comparisons of one canonical name: the name itself, then its aliases
CandidateTexts(entry) == <<entry.name>> \o entry.aliases

RECURSIVE ScanTexts_LastWins(_, _, _, _)
\* variant: replaced on an equal score too, so the last of equals is kept
ScanTexts_LastWins(normalized_name, master_name, texts, acc) ==
  IF texts = <<>> THEN acc
  ELSE LET score == get_match_score(normalized_name, normalize_text(Head(texts)))
           next == IF score >= acc.score
                   THEN [match |-> master_name, score |-> score]
                   ELSE acc
       IN ScanTexts_LastWins(normalized_name, master_name, Tail(texts), next)

RECURSIVE ScanTexts(_, _, _, _)
\* the inner updates of (best_match, highest_score) for one canonical name
ScanTexts(normalized_name, master_name, texts, acc) ==
  IF texts = <<>> THEN acc
  ELSE LET score == get_match_score(normalized_name, normalize_text(Head(texts)))
           next == IF score > acc.score
                   THEN [match |-> master_name, score |-> score]
                   ELSE acc
       IN ScanTexts(normalized_name, master_name, Tail(texts), next)

RECURSIVE ScanMaster(_, _, _)
ScanMaster(normalized_name, master_dict, acc) ==
  IF master_dict = <<>> THEN acc
  ELSE ScanMaster(normalized_name, Tail(master_dict),
                  ScanTexts(normalized_name, Head(master_dict).name,
                            CandidateTexts(Head(master_dict)), acc))

\* master_dict is the dict {canonical: [aliases]} in its iteration order
find_best_match(name, master_dict) ==
  IF name = <<>> \/ master_dict = <<>>
  THEN [match |-> NoName, score |-> 0]
  ELSE ScanMaster(normalize_text(name), master_dict,
                  [match |-> NoName, score |-> 0])

----------------------------------------------------------------------------
(* name_matching.get_name_similarity_score *)

\* Python truthiness of plan_master_name: None and "" are false
Truthy(name) == IsStr(name) /\ name # <<>>

get_name_similarity_score(master_name, plan_master_name, master_original, plan_original) ==
  IF Truthy(plan_master_name) /\ plan_master_name = master_name THEN 100
  ELSE IF Truthy(plan_master_name)
          /\ (IsSubstring(plan_master_name, master_name)
              \/ IsSubstring(master_name, plan_master_name)) THEN 80
  ELSE LET norm_master_original == normalize_text(master_original)
           norm_plan_original == normalize_text(plan_original)
       IN IF norm_master_original = <<>> \/ norm_plan_original = <<>> THEN 0
          ELSE IF IsSubstring(norm_master_original, norm_plan_original)
                  \/ IsSubstring(norm_plan_original, norm_master_original) THEN 70
          ELSE 0

----------------------------------------------------------------------------
(* name_matching.apply_name_matching *)

\* one row of the copy with the four added columns
MatchedRow(row, master) ==
  LET c == find_best_match(row.customer, master.customer)
      p == find_best_match(row.product, master.product)
  IN [line |-> row.line, customer |-> row.customer, product |-> row.product,
      start |-> row.start, end |-> row.end, qty |-> row.qty,
      canon_customer |-> c.match, customer_score |-> c.score,
      canon_product |-> p.match, product_score |-> p.score]

apply_name_matching(df, master) == [i \in 1..Len(df) |-> MatchedRow(df[i], master)]

----------------------------------------------------------------------------
(* progress_logic._find_best_master_for_plan *)

\* variant: every master row is a candidate, whatever its line
candidate_masters_any_line(plan_row, masters) == [i \in 1..Len(masters) |-> i]

\* master_df[master_df['担当設備'] == plan_row['担当設備']]: the row labels kept
candidate_masters_by_line(plan_row, masters) ==
  FilterSeq([i \in 1..Len(masters) |-> i],
            {i \in 1..Len(masters) : masters[i].line = plan_row.line})

\* phase 1: the candidates whose normalized customer equals the plan's
exact_customer_candidates(plan_row, masters) ==
  LET cands == candidate_masters_by_line(plan_row, masters)
  IN FilterSeq(cands,
       {k \in 1..Len(cands) :
          normalize_text(plan_row.customer) = normalize_text(masters[cands[k]].customer)})

\* get_name_similarity_score on the product names of a plan row and a master row
ProductScore(plan_row, master_row) ==
  get_name_similarity_score(master_row.product, plan_row.canon_product,
                            master_row.product, plan_row.product)

\* get_name_similarity_score on the customer names of a plan row and a master row
CustomerScore(plan_row, master_row) ==
  get_name_similarity_score(master_row.customer, plan_row.canon_customer,
                            master_row.customer, plan_row.customer)

\* variant: an exact product scores no more than a canonical-name match
Phase1Score_NoBonus(plan_row, master_row) ==
  IF normalize_text(plan_row.product) = normalize_text(master_row.product)
  THEN 100
  ELSE ProductScore(plan_row, master_row)

\* phase 1 score of one exact-customer candidate
Phase1Score(plan_row, master_row) ==
  IF normalize_text(plan_row.product) = normalize_text(master_row.product)
  THEN 1000
  ELSE ProductScore(plan_row, master_row)

\* variant: the weights exchanged, 40 for the customer and 60 for the product
Phase2Score10_ProductHeavy(plan_row, master_row) ==
  CustomerScore(plan_row, master_row) * 4 + ProductScore(plan_row, master_row) * 6

\* phase 2 score of one candidate, times 10: (cust/100)*60 + (prod/100)*40
Phase2Score10(plan_row, master_row) ==
  CustomerScore(plan_row, master_row) * 6 + ProductScore(plan_row, master_row) * 4

\* the phase 2 floor,  score_this_candidate > 40, times 10
Phase2Floor10 == 400

RECURSIVE BestOfPhase1_LastWins(_, _, _, _)
\* variant: replaced on an equal score too, so the last of equals is kept
BestOfPhase1_LastWins(plan_row, masters, cands, acc) ==
  IF cands = <<>> THEN acc
  ELSE LET s == Phase1Score(plan_row, masters[Head(cands)])
       IN BestOfPhase1_LastWins(plan_row, masters, Tail(cands),
            IF s >= acc.score THEN [best |-> Head(cands), score |-> s] ELSE acc)

RECURSIVE BestOfPhase1(_, _, _, _)
\* the loop of phase 1: acc = [best, highest_score], replaced on a strictly higher score
BestOfPhase1(plan_row, masters, cands, acc) ==
  IF cands = <<>> THEN acc
  ELSE LET s == Phase1Score(plan_row, masters[Head(cands)])
       IN BestOfPhase1(plan_row, masters, Tail(cands),
            IF s > acc.score THEN [best |-> Head(cands), score |-> s] ELSE acc)

RECURSIVE BestOfPhase2_LastWins(_, _, _, _)
\* variant: replaced on an equal score too, so the last of equals is kept
BestOfPhase2_LastWins(plan_row, masters, cands, acc) ==
  IF cands = <<>> THEN acc
  ELSE LET s == Phase2Score10(plan_row, masters[Head(cands)])
       IN BestOfPhase2_LastWins(plan_row, masters, Tail(cands),
            IF s >= acc.score /\ s > Phase2Floor10
            THEN [best |-> Head(cands), score |-> s] ELSE acc)

RECURSIVE BestOfPhase2(_, _, _, _)
\* the loop of phase 2, same update with the floor added
BestOfPhase2(plan_row, masters, cands, acc) ==
  IF cands = <<>> THEN acc
  ELSE LET s == Phase2Score10(plan_row, masters[Head(cands)])
       IN BestOfPhase2(plan_row, masters, Tail(cands),
            IF s > acc.score /\ s > Phase2Floor10
            THEN [best |-> Head(cands), score |-> s] ELSE acc)

\* the row label of the returned master row, 0 for the empty Series
BestMasterIndex(plan_row, masters) ==
  LET p1 == BestOfPhase1(plan_row, masters,
                         exact_customer_candidates(plan_row, masters),
                         [best |-> 0, score |-> 0])
  IN IF p1.score > 0 THEN p1.best
     ELSE BestOfPhase2(plan_row, masters,
                       candidate_masters_by_line(plan_row, masters),
                       [best |-> 0, score |-> 0]).best

\* the returned Series: <<>> when empty, else the one master row
find_best_master_for_plan(plan_row, masters) ==
  LET i == BestMasterIndex(plan_row, masters)
  IN IF i = 0 THEN <<>> ELSE <<masters[i]>>

----------------------------------------------------------------------------
(* progress_logic._clean_plan_with_master *)

\* variant: only the customer name is overwritten on a match
CleanedRow_CustomerOnly(plan_row, masters) ==
  LET best_master_row == find_best_master_for_plan(plan_row, masters)
  IN IF best_master_row # <<>>
     THEN [plan_row EXCEPT !.customer = best_master_row[1].customer]
     ELSE plan_row

\* new_row: the matched row with the two names overwritten on a match
CleanedRow(plan_row, masters) ==
  LET best_master_row == find_best_master_for_plan(plan_row, masters)
  IN IF best_master_row # <<>>
     THEN [plan_row EXCEPT !.customer = best_master_row[1].customer,
                           !.product = best_master_row[1].product]
     ELSE plan_row

clean_plan_with_master(plan, masters, aliases) ==
  IF plan = <<>> THEN <<>>
  ELSE LET plan_df_matched == apply_name_matching(plan, aliases)
       IN [i \in 1..Len(plan) |-> CleanedRow(plan_df_matched[i], masters)]

----------------------------------------------------------------------------
(* data_loader.load_results_data, step 4: one actual record from one row    *)
(* of the extracted sheet                                                   *)

\* the date both loaders filter to, and so the date of every record
SelectedDate == 0

\* variant: a session counts as soon as its startTime is given
ValidSessions_StartOnly(sessions) ==
  FilterSeq(sessions, {i \in 1..Len(sessions) : sessions[i].s # NaT})

\* a session counts when both its startTime and its endTime are given
ValidSessions(sessions) ==
  FilterSeq(sessions,
            {i \in 1..Len(sessions) : sessions[i].s # NaT /\ sessions[i].e # NaT})

RECURSIVE SeqSum(_)
SeqSum(s) == IF s = <<>> THEN 0 ELSE Head(s) + SeqSum(Tail(s))

\* min / max of a set of timestamps, NaT for the empty set
MinOf(S) == IF S = {} THEN NaT ELSE CHOOSE x \in S : \A y \in S : x <= y
MaxOf(S) == IF S = {} THEN NaT ELSE CHOOSE x \in S : \A y \in S : x >= y

LoadedResultRow(raw) ==
  LET ok == ValidSessions(raw.sessions)
      current_record_session_starts == [i \in 1..Len(ok) |-> ok[i].s]
      current_record_session_ends == [i \in 1..Len(ok) |-> ok[i].e]
      total == SeqSum([i \in 1..Len(ok) |-> ok[i].e - ok[i].s])
  IN [date |-> SelectedDate, line |-> raw.line,
      customer |-> raw.customer, product |-> raw.product,
      actual_qty |-> raw.qty,
      actual_start |-> MinOf(Range(current_record_session_starts)),
      actual_end |-> MaxOf(Range(current_record_session_ends)),
      duration |-> IF total > 0 THEN total ELSE 0,
      session_starts |-> current_record_session_starts,
      session_ends |-> current_record_session_ends]

----------------------------------------------------------------------------
(* progress_logic._merge_plan_and_results *)

\* code points, for the lexicographic order pandas sorts keys in
CharCode(c) ==
  CASE c = " " -> 32 [] c = "-" -> 45 [] c = "." -> 46
    [] c = "1" -> 49 [] c = "2" -> 50
    [] c = "A" -> 65 [] c = "B" -> 66 [] c = "L" -> 76
    [] c = "a" -> 97 [] c = "b" -> 98 [] c = "c" -> 99
    [] c = "AAcute" -> 193 [] c = "aAcute" -> 225
    [] c = "Acute" -> 769
    [] c = "FwHyphen" -> 65293 [] c = "FwA" -> 65313 [] c = "FwB" -> 65314
    [] OTHER -> 20000

RECURSIVE StrLess(_, _)
\* Python's  a < b  on str
StrLess(a, b) ==
  IF b = <<>> THEN FALSE
  ELSE IF a = <<>> THEN TRUE
  ELSE IF CharCode(a[1]) # CharCode(b[1]) THEN CharCode(a[1]) < CharCode(b[1])
  ELSE StrLess(Tail(a), Tail(b))

\* key_cols = ['日付', '担当設備', 'お客様名', '商品名']
KeyOf(row) == <<row.date, row.line, row.customer, row.product>>

KeyLess(k1, k2) ==
  IF k1[1] # k2[1] THEN k1[1] < k2[1]
  ELSE IF k1[2] # k2[2] THEN StrLess(k1[2], k2[2])
  ELSE IF k1[3] # k2[3] THEN StrLess(k1[3], k2[3])
  ELSE StrLess(k1[4], k2[4])

RECURSIVE InsertByKey(_, _)
\* row goes after every row whose key is not greater (a stable sort)
InsertByKey(sorted, row) ==
  IF sorted = <<>> THEN <<row>>
  ELSE IF KeyLess(KeyOf(row), KeyOf(Head(sorted)))
       THEN <<row>> \o sorted
       ELSE <<Head(sorted)>> \o InsertByKey(Tail(sorted), row)

RECURSIVE SortByKey(_)
SortByKey(rows) ==
  IF rows = <<>> THEN <<>>
  ELSE InsertByKey(SortByKey(SubSeq(rows, 1, Len(rows) - 1)), rows[Len(rows)])

\* groupby drops a row with a missing value in any key column (dropna=True)
HasFullKey(row) == IsStr(row.line) /\ IsStr(row.customer) /\ IsStr(row.product)

RECURSIVE ConcatAll(_)
\* 'sum' over a column of lists: the lists joined in row order
ConcatAll(lists) ==
  IF lists = <<>> THEN <<>> ELSE Head(lists) \o ConcatAll(Tail(lists))

\* one aggregated row: the rows of results with this key, in row order
AggRow(results, key) ==
  LET grp == FilterSeq(results,
               {i \in 1..Len(results) : HasFullKey(results[i]) /\ KeyOf(results[i]) = key})
      idx == 1..Len(grp)
  IN [date |-> key[1], line |-> key[2], customer |-> key[3], product |-> key[4],
      actual_start |-> MinOf({grp[i].actual_start : i \in idx} \ {NaT}),
      actual_end |-> MaxOf({grp[i].actual_end : i \in idx} \ {NaT}),
      actual_qty |-> SeqSum([i \in idx |->
                       IF grp[i].actual_qty = NaN THEN 0 ELSE grp[i].actual_qty]),
      duration |-> SeqSum([i \in idx |-> grp[i].duration]),
      session_starts |-> ConcatAll([i \in idx |-> grp[i].session_starts]),
      session_ends |-> ConcatAll([i \in idx |-> grp[i].session_ends])]

\* the first row of each group, in row order
FirstOfKey(results) ==
  FilterSeq(results,
    {i \in 1..Len(results) :
       HasFullKey(results[i])
       /\ \A j \in 1..(i - 1) : KeyOf(results[j]) # KeyOf(results[i])})

\* results_df.groupby(key_cols).agg(...).reset_index(): one row per key, sorted
agg_results_df(results) ==
  LET firsts == FirstOfKey(results)
  IN SortByKey([i \in 1..Len(firsts) |-> AggRow(results, KeyOf(firsts[i]))])

\* a merged row: the plan columns and the actual columns side by side
MergedRow(key, p, a) ==
  [date |-> key[1], line |-> key[2], customer |-> key[3], product |-> key[4],
   start |-> p.start, end |-> p.end, qty |-> p.qty,
   actual_start |-> a.actual_start, actual_end |-> a.actual_end,
   actual_qty |-> a.actual_qty, duration |-> a.duration,
   session_starts |-> a.session_starts, session_ends |-> a.session_ends]

\* the plan columns of a row that has no plan
NoPlan == [start |-> NaT, end |-> NaT, qty |-> NaN]

\* the actual columns of a row that has no actuals
NoActual == [actual_start |-> NaT, actual_end |-> NaT, actual_qty |-> NaN,
             duration |-> NaN, session_starts |-> <<>>, session_ends |-> <<>>]

\* cleaned_plan_df['日付'] = pd.to_datetime(...).dt.date
PlanKey(p) == <<SelectedDate, p.line, p.customer, p.product>>

\* the actual columns joined to one plan row
ActualFor(key, agg) ==
  IF \E i \in 1..Len(agg) : KeyOf(agg[i]) = key
  THEN agg[CHOOSE i \in 1..Len(agg) : KeyOf(agg[i]) = key]
  ELSE NoActual

\* variant: how='left', the groups without a plan row are dropped
LeftMerge(plan, agg) ==
  SortByKey([i \in 1..Len(plan) |->
               MergedRow(PlanKey(plan[i]), plan[i], ActualFor(PlanKey(plan[i]), agg))])

\* pd.merge(cleaned_plan_df, agg_results_df, on=key_cols, how='outer')
OuterMerge(plan, agg) ==
  LET left == [i \in 1..Len(plan) |->
                 MergedRow(PlanKey(plan[i]), plan[i], ActualFor(PlanKey(plan[i]), agg))]
      rightOnly == FilterSeq(agg,
                     {i \in 1..Len(agg) :
                        \A j \in 1..Len(plan) : PlanKey(plan[j]) # KeyOf(agg[i])})
      right == [i \in 1..Len(rightOnly) |->
                  MergedRow(KeyOf(rightOnly[i]), NoPlan, rightOnly[i])]
  IN SortByKey(left \o right)

\* the frame with its rows and whether it holds the plan columns
merge_plan_and_results(cleaned_plan, results) ==
  LET agg == IF results # <<>> THEN agg_results_df(results) ELSE <<>>
  IN IF cleaned_plan # <<>> /\ agg # <<>>
     THEN [plan_cols |-> TRUE, rows |-> OuterMerge(cleaned_plan, agg)]
     ELSE IF cleaned_plan # <<>>
     THEN [plan_cols |-> TRUE,
           rows |-> [i \in 1..Len(cleaned_plan) |->
                       MergedRow(PlanKey(cleaned_plan[i]), cleaned_plan[i], NoActual)]]
     ELSE IF agg # <<>>
     THEN [plan_cols |-> FALSE,
           rows |-> [i \in 1..Len(agg) |-> MergedRow(KeyOf(agg[i]), NoPlan, agg[i])]]
     ELSE [plan_cols |-> FALSE, rows |-> <<>>]

----------------------------------------------------------------------------
(* progress_logic.calculate_differences_and_status and get_status *)

\* .fillna(0)
OrZero(x) == IF x = NaN THEN 0 ELSE x

\* variant: the comparison is not strict
After_OrEqual(t, limit) == t # NaT /\ limit # NaT /\ t >= limit

\* variant: the comparison is turned round
After_Before(t, limit) == t # NaT /\ limit # NaT /\ t < limit

\* now > row['予定終了時刻'] : a comparison with NaT is False
After(t, limit) == t # NaT /\ limit # NaT /\ t > limit

\* 遅延(未開始) 未開始 遅延(進行中) 進行中 完了(遅延) 完了 予定外 ---
get_status(row, now) ==
  LET is_planned == row.start # NaT
      is_resulted == row.actual_start # NaT
  IN IF is_planned /\ ~is_resulted
     THEN (IF After(now, row.end) THEN "delayed-not-started" ELSE "not-started")
     ELSE IF is_planned /\ is_resulted
     THEN (IF row.actual_end = NaT
           THEN (IF After(now, row.end) THEN "delayed-in-progress" ELSE "in-progress")
           ELSE (IF After(row.actual_end, row.end) THEN "completed-late" ELSE "completed"))
     ELSE IF ~is_planned /\ is_resulted THEN "unplanned"
     ELSE "none"

\* 生産時間差異(分): planned_duration holds the rows with both plan times only,
\* so the subtraction aligns every other row to NaN
DurationDelta(row) ==
  IF row.start # NaT /\ row.end # NaT
  THEN OrZero(row.duration) - (row.end - row.start)
  ELSE NaN

ClassifiedRow(row, now) ==
  [date |-> row.date, line |-> row.line,
   customer |-> row.customer, product |-> row.product,
   start |-> row.start, end |-> row.end, qty |-> row.qty,
   actual_start |-> row.actual_start, actual_end |-> row.actual_end,
   actual_qty |-> row.actual_qty, duration |-> row.duration,
   session_starts |-> row.session_starts, session_ends |-> row.session_ends,
   quantity_delta |-> OrZero(row.actual_qty) - OrZero(row.qty),
   duration_delta |-> DurationDelta(row),
   status |-> get_status(row, now)]

\* clock[i] is what datetime.now() returns in the get_status call of row i
calculate_differences_and_status(rows, clock) ==
  [i \in 1..Len(rows) |-> ClassifiedRow(rows[i], clock[i])]

\* variant: step 4 keeps every row
IsKept_Every(row) == TRUE

\* step 4 of create_progress_table: the rows kept
IsKept(row) ==
  LET is_unplanned_but_valid == row.start = NaT /\ row.actual_start # NaT
      is_planned_and_valid == row.start # NaT /\ row.end # NaT
  IN is_unplanned_but_valid \/ is_planned_and_valid

FilterValid(rows) == FilterSeq(rows, {i \in 1..Len(rows) : IsKept(rows[i])})

----------------------------------------------------------------------------
(* Inputs *)

\* sequences over S of length 0..n
BoundedSeq(S, n) == UNION {[1..k -> S] : k \in 0..n}

L1 == <<"L", "1">>
L2 == <<"L", "2">>

\* largest number of plan records, actual records and catalog rows of the
\* pipeline runs, and of catalog rows of the resolver runs
MaxPlan == 2
MaxResults == 2
MaxCatalog == 3

\* names of the resolver runs.  Catalog: "ab", "A-b" (normalizes to "ab"),
\* "a" (a part of "ab"), "c" (unrelated).  Plan: "Ａb" (full-width A,
\* normalizes to "ab"), "a"; products "A-b", "b", "-" (normalizes to "")
CatalogCustomerNames == {<<"a", "b">>, <<"A", "-", "b">>, <<"a">>, <<"c">>}
CatalogProductNames == {<<"a", "b">>, <<"a">>, <<"c">>}
PlanCustomerNames == {<<"FwA", "b">>, <<"a">>}
PlanProductNames == {<<"A", "-", "b">>, <<"b">>, <<"-">>}

MasterRows ==
  [line : {L1}, customer : CatalogCustomerNames, product : CatalogProductNames]
  \cup [line : {L2}, customer : {<<"a", "b">>}, product : {<<"a", "b">>}]

\* a plan record as load_plan_data builds it: 予定開始時刻 is never NaT
PlanRow(l, c, p, st, en, q) ==
  [line |-> l, customer |-> c, product |-> p, start |-> st, end |-> en, qty |-> q]

ResolverPlanRows ==
  {PlanRow(L1, c, p, 540, 600, 100) : c \in PlanCustomerNames, p \in PlanProductNames}

\* one entry of an alias category: canonical name and its aliases
Alias(n, as) == [name |-> n, aliases |-> as]

NoAliases == [customer |-> <<>>, product |-> <<>>]

\* alias tables of the resolver runs: none; product "ab" is an alias of "a";
\* customer "ab" is an alias of "c"; both
AliasTables ==
  {NoAliases,
   [customer |-> <<>>, product |-> <<Alias(<<"a">>, <<<<"a", "b">>>>)>>],
   [customer |-> <<Alias(<<"c">>, <<<<"A", "b">>>>)>>, product |-> <<>>]}

\* inputs of the pipeline runs
PipelinePlanRows ==
  {PlanRow(L1, c, <<"A">>, 540, en, 100) : c \in {<<"FwA", "b">>, <<"c">>}, en \in {600, NaT}}

PipelineCatalogs == {<<>>, <<[line |-> L1, customer |-> <<"a", "b">>, product |-> <<"a">>]>>}

PipelineAliasTables ==
  {NoAliases, [customer |-> <<Alias(<<"a", "b">>, <<<<"A", "B">>>>)>>, product |-> <<>>]}

Session(st, en) == [s |-> st, e |-> en]

SessionLists ==
  {<<>>, <<Session(550, 620)>>, <<Session(550, 560), Session(580, 590)>>,
   <<Session(550, NaT)>>}

\* a row of the extracted sheet
RawResultRows ==
  [line : {L1}, customer : {<<"a", "b">>, <<"c">>, NoName}, product : {<<"a">>},
   qty : {95}, sessions : SessionLists]

ResultRows == {LoadedResultRow(raw) : raw \in RawResultRows}

\* the instants datetime.now() can return during one run
NowSet == {590, 610}

NonDecreasing(s) == \A i \in 1..(Len(s) - 1) : s[i] <= s[i + 1]

----------------------------------------------------------------------------
(* create_progress_table, step by step *)

\* step 1: cleaned_plan_df, log = _clean_plan_with_master(plan_df, master_df, name_master)
CleanPlanWithMaster ==
  /\ pc = "start"
  /\ cleaned_plan_df' = clean_plan_with_master(plan_df, master_df, name_master)
  /\ best_master_rows' =
       LET matched == apply_name_matching(plan_df, name_master)
       IN [i \in 1..Len(plan_df) |-> find_best_master_for_plan(matched[i], master_df)]
  /\ pc' = "cleaned"
  /\ UNCHANGED <<plan_df, results_df, master_df, name_master, merged_df, final_df,
                 raised, nows, timeline_df, original_text, normalized,
                 temp_file_path, temp_file, production_records>>

\* step 2: final_df = _merge_plan_and_results(cleaned_plan_df, results_df)
MergePlanAndResults ==
  /\ pc = "cleaned"
  /\ merged_df' = merge_plan_and_results(cleaned_plan_df, results_df)
  /\ pc' = "merged"
  /\ UNCHANGED <<plan_df, results_df, master_df, name_master, best_master_rows,
                 cleaned_plan_df, final_df, raised, nows, timeline_df, original_text, normalized,
                 temp_file_path, temp_file, production_records>>

\* step 3 on a frame without the plan columns: df['予定数'] raises KeyError
ClassifyRaises ==
  /\ pc = "merged"
  /\ merged_df.rows # <<>>
  /\ ~merged_df.plan_cols
  /\ raised' = "KeyError"
  /\ pc' = "raised"
  /\ UNCHANGED <<plan_df, results_df, master_df, name_master, best_master_rows,
                 cleaned_plan_df, merged_df, final_df, nows, timeline_df, original_text, normalized,
                 temp_file_path, temp_file, production_records>>

\* step 3: final_df = calculate_differences_and_status(final_df)
CalculateDifferencesAndStatus ==
  /\ pc = "merged"
  /\ merged_df.rows # <<>>
  /\ merged_df.plan_cols
  /\ \E ns \in [1..Len(merged_df.rows) -> NowSet] :
       /\ NonDecreasing(ns)
       /\ nows' = ns
       /\ final_df' = calculate_differences_and_status(merged_df.rows, ns)
  /\ pc' = "classified"
  /\ UNCHANGED <<plan_df, results_df, master_df, name_master, best_master_rows,
                 cleaned_plan_df, merged_df, raised, timeline_df, original_text, normalized,
                 temp_file_path, temp_file, production_records>>

\* step 4: the rows with a partial plan or with neither plan nor actual start go
FilterRows ==
  /\ pc = "classified"
  /\ final_df' = FilterValid(final_df)
  /\ pc' = "done"
  /\ UNCHANGED <<plan_df, results_df, master_df, name_master, best_master_rows,
                 cleaned_plan_df, merged_df, raised, nows, timeline_df, original_text, normalized,
                 temp_file_path, temp_file, production_records>>

\* steps 3 and 4 are skipped on an empty frame, which is returned as it is
ReturnEmpty ==
  /\ pc = "merged"
  /\ merged_df.rows = <<>>
  /\ final_df' = <<>>
  /\ pc' = "done"
  /\ UNCHANGED <<plan_df, results_df, master_df, name_master, best_master_rows,
                 cleaned_plan_df, merged_df, raised, nows, timeline_df, original_text, normalized,
                 temp_file_path, temp_file, production_records>>

\* load_results_data is not part of the run: no temporary file, no sheet
NotLoading ==
  /\ temp_file_path = "None"
  /\ temp_file = "absent"
  /\ production_records = <<>>

InitWork ==
  /\ pc = "start"
  /\ best_master_rows = <<>>
  /\ cleaned_plan_df = <<>>
  /\ merged_df = [plan_cols |-> FALSE, rows |-> <<>>]
  /\ final_df = <<>>
  /\ raised = "none"
  /\ nows = <<>>
  /\ timeline_df = <<>>
  /\ original_text = NoName
  /\ normalized = <<>>
  /\ NotLoading

\* the whole of create_progress_table on small inputs
Init ==
  /\ plan_df \in BoundedSeq(PipelinePlanRows, MaxPlan)
  /\ results_df \in BoundedSeq(ResultRows, MaxResults)
  /\ master_df \in PipelineCatalogs
  /\ name_master \in PipelineAliasTables
  /\ InitWork

Next ==
  \/ CleanPlanWithMaster
  \/ MergePlanAndResults
  \/ ClassifyRaises
  \/ CalculateDifferencesAndStatus
  \/ FilterRows
  \/ ReturnEmpty

Spec == Init /\ [][Next]_vars

\* _clean_plan_with_master alone, on one plan record and richer catalogs
InitClean ==
  /\ plan_df \in {<<r>> : r \in ResolverPlanRows}
  /\ results_df = <<>>
  /\ master_df \in BoundedSeq(MasterRows, MaxCatalog)
  /\ name_master \in AliasTables
  /\ InitWork

NextClean == CleanPlanWithMaster

SpecClean == InitClean /\ [][NextClean]_vars

----------------------------------------------------------------------------
(* Identity resolution: the tiers of the specification, stated on           *)
(* normalized names                                                         *)

NormEq(x, y) == normalize_text(x) = normalize_text(y)

\* one normalized name is a proper part of the other, neither being empty
NormPart(x, y) ==
  LET a == normalize_text(x)
      b == normalize_text(y)
  IN a # <<>> /\ b # <<>> /\ a # b /\ (IsSubstring(a, b) \/ IsSubstring(b, a))

SameLine(p, m) == m.line = p.line
Tier1(p, m) == SameLine(p, m) /\ NormEq(p.customer, m.customer) /\ NormEq(p.product, m.product)
Tier2(p, m) == SameLine(p, m) /\ NormEq(p.customer, m.customer) /\ NormPart(p.product, m.product)
Tier3(p, m) == SameLine(p, m) /\ NormPart(p.customer, m.customer) /\ NormEq(p.product, m.product)
Tier4(p, m) == SameLine(p, m) /\ NormPart(p.customer, m.customer) /\ NormPart(p.product, m.product)

\* the first row of the catalog satisfying T
FirstIndex(T(_, _), p) == CHOOSE i \in 1..Len(master_df) :
  T(p, master_df[i]) /\ \A j \in 1..(i - 1) : ~T(p, master_df[j])

Some(T(_, _), p) == \E i \in 1..Len(master_df) : T(p, master_df[i])

\* the plan record of a resolver run, with the alias columns, and what
\* _find_best_master_for_plan returned for it
ThePlan == apply_name_matching(plan_df, name_master)[1]
Resolved == best_master_rows[1]
ResolverDone == pc = "cleaned" /\ Len(plan_df) = 1

\* C1: when some catalog entry on the plan record's line has both names
\* normalized-equal to the plan record's, resolve returns the first such
\* entry, whatever the other candidates are and however the alias table
\* scores them.
C1_ExactExactWins ==
  (ResolverDone /\ Some(Tier1, ThePlan))
    => Resolved = <<master_df[FirstIndex(Tier1, ThePlan)]>>

\* C1 witness: an exact-exact entry is returned although an earlier entry
\* with the same customer gets the alias score 100 on its product.
C1_Witness ==
  /\ ResolverDone
  /\ Some(Tier1, ThePlan)
  /\ \E j \in 1..(FirstIndex(Tier1, ThePlan) - 1) :
       /\ SameLine(ThePlan, master_df[j])
       /\ NormEq(ThePlan.customer, master_df[j].customer)
       /\ ProductScore(ThePlan, master_df[j]) = 100
  /\ Resolved = <<master_df[FirstIndex(Tier1, ThePlan)]>>

\* the names match by normalized equality or normalized containment
NameMatches(x, y) == NormEq(x, y) \/ NormPart(x, y)

MatchesBoth(p, m) ==
  SameLine(p, m) /\ NameMatches(p.customer, m.customer) /\ NameMatches(p.product, m.product)

CustomerMatches(p, m) ==
  /\ SameLine(p, m)
  /\ \/ NameMatches(p.customer, m.customer)
     \/ /\ Truthy(p.canon_customer)
        /\ \/ IsSubstring(p.canon_customer, m.customer)
           \/ IsSubstring(m.customer, p.canon_customer)

\* a non-empty customer match on the names themselves
CustomerNameMatches(p, m) ==
  SameLine(p, m) /\ normalize_text(p.customer) # <<>> /\ NameMatches(p.customer, m.customer)

C3_Original ==
  (ResolverDone /\ ~Some(Tier1, ThePlan) /\ Some(Tier2, ThePlan))
    => Resolved = <<master_df[FirstIndex(Tier2, ThePlan)]>>

\* C3 as amended: in that case resolve returns an entry of the line whose
\* customer is normalized-equal (never one whose customer is only a part
\* match), and it is the first tier-2 entry in catalog order when the alias
\* table gives the plan's product no canonical name; with a canonical name
\* the alias scores (100, 80) can put another equal-customer entry first.
C3_FirstTier2WithoutAlias ==
  (ResolverDone /\ ~Some(Tier1, ThePlan) /\ Some(Tier2, ThePlan))
    => /\ Resolved # <<>>
       /\ SameLine(ThePlan, Resolved[1])
       /\ NormEq(ThePlan.customer, Resolved[1].customer)
       /\ ~Truthy(ThePlan.canon_product)
            => Resolved = <<master_df[FirstIndex(Tier2, ThePlan)]>>

\* C3 witness: two different tier-2 entries, an earlier entry whose customer
\* is only a part match, no canonical product name, and the first tier-2
\* entry is the result.
C3_Witness ==
  /\ ResolverDone
  /\ ~Some(Tier1, ThePlan)
  /\ ~Truthy(ThePlan.canon_product)
  /\ \E i, j \in 1..Len(master_df) :
       /\ i < j
       /\ Tier2(ThePlan, master_df[i])
       /\ Tier2(ThePlan, master_df[j])
       /\ master_df[i] # master_df[j]
       /\ Resolved = <<master_df[i]>>
       /\ \E k \in 1..(i - 1) : Tier4(ThePlan, master_df[k])

Tier3or4(p, m) == Tier3(p, m) \/ Tier4(p, m)

----------------------------------------------------------------------------
(* PlanCleaner *)

Cleaned == pc # "start"

\* C6: clean returns one record per plan record, in input order, with line,
\* planned_start, planned_end and planned_quantity unchanged; the two names
\* are those of the resolved master entry when there is one and the raw ones
\* otherwise; the plan records, the catalog and the alias table are left as
\* they were.
C6_CleanFrame ==
  /\ [](Cleaned =>
          /\ Len(cleaned_plan_df) = Len(plan_df)
          /\ \A i \in 1..Len(plan_df) :
               /\ cleaned_plan_df[i].line = plan_df[i].line
               /\ cleaned_plan_df[i].start = plan_df[i].start
               /\ cleaned_plan_df[i].end = plan_df[i].end
               /\ cleaned_plan_df[i].qty = plan_df[i].qty
               /\ best_master_rows[i] # <<>> =>
                    /\ cleaned_plan_df[i].customer = best_master_rows[i][1].customer
                    /\ cleaned_plan_df[i].product = best_master_rows[i][1].product
               /\ best_master_rows[i] = <<>> =>
                    /\ cleaned_plan_df[i].customer = plan_df[i].customer
                    /\ cleaned_plan_df[i].product = plan_df[i].product)
  /\ [][plan_df' = plan_df /\ master_df' = master_df /\ name_master' = name_master]_vars

\* C6 witness: two plan records, the first unresolved and left raw, the
\* second resolved and renamed.
C6_Witness ==
  /\ Cleaned
  /\ Len(plan_df) = 2
  /\ best_master_rows[1] = <<>>
  /\ cleaned_plan_df[1].customer = plan_df[1].customer
  /\ best_master_rows[2] # <<>>
  /\ cleaned_plan_df[2].customer # plan_df[2].customer
  /\ cleaned_plan_df[2].product # plan_df[2].product

----------------------------------------------------------------------------
(* ReconciliationMerger *)

Merged == pc \notin {"start", "cleaned"}

\* no plan record and actual record share a composite key
Disjoint ==
  \A i \in 1..Len(cleaned_plan_df), j \in 1..Len(results_df) :
    PlanKey(cleaned_plan_df[i]) # KeyOf(results_df[j])

\* every composite key occurs on both sides
AllShared ==
  /\ \A i \in 1..Len(cleaned_plan_df) : \E j \in 1..Len(results_df) :
       PlanKey(cleaned_plan_df[i]) = KeyOf(results_df[j])
  /\ \A j \in 1..Len(results_df) : \E i \in 1..Len(cleaned_plan_df) :
       PlanKey(cleaned_plan_df[i]) = KeyOf(results_df[j])

\* the actual records with a given key, in source order
RecordsOf(key) ==
  FilterSeq(results_df, {j \in 1..Len(results_df) : KeyOf(results_df[j]) = key})

QuantityOf(key) ==
  LET recs == RecordsOf(key)
  IN SeqSum([i \in 1..Len(recs) |-> OrZero(recs[i].actual_qty)])

AllKeys ==
  {PlanKey(cleaned_plan_df[i]) : i \in 1..Len(cleaned_plan_df)}
  \cup {KeyOf(results_df[j]) : j \in 1..Len(results_df)}

QuantitiesSummed ==
  \A r \in 1..Len(merged_df.rows) :
    merged_df.rows[r].actual_qty = QuantityOf(KeyOf(merged_df.rows[r]))

\* C7 as claimed: with no shared key the merged rows number plan rows plus
\* actual rows; with every key on both sides they number the distinct keys
\* and each row's actual_quantity is the sum over the actual records of its
\* key.
C7_Original ==
  Merged =>
    /\ Disjoint => Len(merged_df.rows) = Len(cleaned_plan_df) + Len(results_df)
    /\ AllShared =>
         /\ Len(merged_df.rows) = Cardinality(AllKeys)
         /\ QuantitiesSummed

\* the groups the aggregation forms: the distinct keys of the actual
\* records with no key field missing
ActualGroups == {KeyOf(results_df[j]) : j \in {k \in 1..Len(results_df) : HasFullKey(results_df[k])}}

\* C7 as amended: with no shared key the merged rows number the plan rows
\* plus the groups of the aggregated actuals (one per distinct key, not one
\* per actual record); with every key on both sides there is one merged row
\* per plan record (two plan records of one key give two rows) and each
\* row's actual_quantity is the sum over the actual records of its key.
C7_RowCount ==
  Merged =>
    /\ Disjoint => Len(merged_df.rows) = Len(cleaned_plan_df) + Cardinality(ActualGroups)
    /\ AllShared =>
         /\ Len(merged_df.rows) = Len(cleaned_plan_df)
         /\ QuantitiesSummed

\* C7 witness: a plan record and two actual records of one other key merge
\* into two rows, the second carrying both quantities.
C7_Witness ==
  /\ Merged
  /\ Disjoint
  /\ Len(cleaned_plan_df) = 1
  /\ Len(results_df) = 2
  /\ HasFullKey(results_df[1])
  /\ KeyOf(results_df[1]) = KeyOf(results_df[2])
  /\ Len(merged_df.rows) = 2
  /\ \E r \in 1..2 : merged_df.rows[r].actual_qty =
                       results_df[1].actual_qty + results_df[2].actual_qty

\* the aggregate the claim gives for one key
StartOf(key) ==
  LET recs == RecordsOf(key) IN MinOf({recs[i].actual_start : i \in 1..Len(recs)} \ {NaT})
EndOf(key) ==
  LET recs == RecordsOf(key) IN MaxOf({recs[i].actual_end : i \in 1..Len(recs)} \ {NaT})
DurationOf(key) ==
  LET recs == RecordsOf(key) IN SeqSum([i \in 1..Len(recs) |-> recs[i].duration])
SessionStartsOf(key) ==
  LET recs == RecordsOf(key) IN ConcatAll([i \in 1..Len(recs) |-> recs[i].session_starts])
SessionEndsOf(key) ==
  LET recs == RecordsOf(key) IN ConcatAll([i \in 1..Len(recs) |-> recs[i].session_ends])

CarriesAggregate(row) ==
  LET key == KeyOf(row)
  IN /\ row.actual_start = StartOf(key)
     /\ row.actual_end = EndOf(key)
     /\ row.actual_qty = QuantityOf(key)
     /\ row.duration = DurationOf(key)
     /\ row.session_starts = SessionStartsOf(key)
     /\ row.session_ends = SessionEndsOf(key)

\* C8 as claimed: for every composite key present in the actual records
\* there is a merged record of that key, and it carries the minimum start,
\* maximum end, summed quantity, summed duration and the session lists
\* joined in source-record order.
C8_Aggregation ==
  Merged =>
    \A j \in 1..Len(results_df) :
      /\ \E r \in 1..Len(merged_df.rows) : KeyOf(merged_df.rows[r]) = KeyOf(results_df[j])
      /\ \A r \in 1..Len(merged_df.rows) :
           KeyOf(merged_df.rows[r]) = KeyOf(results_df[j]) => CarriesAggregate(merged_df.rows[r])

\* what holds of the code: the same, for the keys with no field missing
C8_AggregationOfFullKeys ==
  Merged =>
    \A j \in 1..Len(results_df) :
      HasFullKey(results_df[j]) =>
        /\ \E r \in 1..Len(merged_df.rows) : KeyOf(merged_df.rows[r]) = KeyOf(results_df[j])
        /\ \A r \in 1..Len(merged_df.rows) :
             KeyOf(merged_df.rows[r]) = KeyOf(results_df[j]) => CarriesAggregate(merged_df.rows[r])

----------------------------------------------------------------------------
(* create_progress_table as a whole *)

Returned == pc = "done"
Ended == pc \in {"done", "raised"}

\* a merged row of nulls on the plan side
PlanFieldsNull(row) == row.start = NaT /\ row.end = NaT /\ row.qty = NaN

\* C9 as claimed: the call never raises, whatever is empty; with an empty
\* plan and actual records the result is the aggregated actual records, the
\* plan fields null; with neither the result is empty.
C9_NeverRaises ==
  /\ raised = "none"
  /\ (Returned /\ plan_df = <<>> /\ results_df # <<>>) =>
       /\ Len(final_df) = Cardinality(ActualGroups)
       /\ \A r \in 1..Len(final_df) : PlanFieldsNull(final_df[r]) /\ CarriesAggregate(final_df[r])
  /\ (Returned /\ plan_df = <<>> /\ results_df = <<>>) => final_df = <<>>

\* the actual record has no plan record of its key
Unplanned(j) ==
  \A i \in 1..Len(cleaned_plan_df) : PlanKey(cleaned_plan_df[i]) # KeyOf(results_df[j])

\* C10 as claimed: every actual record whose key matches no plan record is
\* in the output of the call with the status unplanned, also with an empty
\* session list or a null identity field.
C10_UnplannedRetained ==
  Ended =>
    \A j \in 1..Len(results_df) :
      Unplanned(j) =>
        /\ Returned
        /\ \E r \in 1..Len(final_df) :
             /\ KeyOf(final_df[r]) = KeyOf(results_df[j])
             /\ final_df[r].status = "unplanned"

----------------------------------------------------------------------------
(* The output of create_progress_table *)

CompletePlan(row) == row.start # NaT /\ row.end # NaT
HasActualData(row) == row.actual_start # NaT

\* C11: every record of the returned frame has a complete plan interval or
\* actual data, never neither; none has planned_start without planned_end;
\* none carries the status none.
C11_OutputInvariant ==
  Returned =>
    \A r \in 1..Len(final_df) :
      /\ CompletePlan(final_df[r]) \/ HasActualData(final_df[r])
      /\ ~(final_df[r].start # NaT /\ final_df[r].end = NaT)
      /\ final_df[r].status # "none"

\* C11 witness: the call returned a record although the merged frame held
\* both a record with a partial plan and a record with neither plan nor
\* actual start.
C11_Witness ==
  /\ Returned
  /\ final_df # <<>>
  /\ \E r \in 1..Len(merged_df.rows) :
       merged_df.rows[r].start # NaT /\ merged_df.rows[r].end = NaT
  /\ \E r \in 1..Len(merged_df.rows) :
       merged_df.rows[r].start = NaT /\ merged_df.rows[r].actual_start = NaT

----------------------------------------------------------------------------
(* get_status on one merged record, classified and classified again later *)

StatusPlans ==
  {[start |-> 540, end |-> 600, qty |-> 100],
   [start |-> 540, end |-> NaT, qty |-> 100],
   NoPlan}

StatusActuals ==
  {[actual_start |-> st, actual_end |-> en, actual_qty |-> q, duration |-> 0,
    session_starts |-> <<>>, session_ends |-> <<>>] :
     st \in {550, NaT}, en \in {590, 600, 610, NaT}, q \in {95, NaN}}

StatusRows ==
  {MergedRow(<<SelectedDate, L1, <<"c">>, <<"a">>>>, p, a) : p \in StatusPlans, a \in StatusActuals}

\* the instants of the later calls
StatusNowSet == {590, 600, 610, 620}

\* the merged frame is classified once more, the clock not having gone back
Reclassify ==
  /\ pc = "classified"
  /\ \E ns \in [1..Len(merged_df.rows) -> StatusNowSet] :
       /\ NonDecreasing(ns)
       /\ ns[1] >= nows[Len(nows)]
       /\ nows' = ns
       /\ final_df' = calculate_differences_and_status(merged_df.rows, ns)
  /\ UNCHANGED <<pc, plan_df, results_df, master_df, name_master, best_master_rows,
                 cleaned_plan_df, merged_df, raised, timeline_df, original_text, normalized,
                 temp_file_path, temp_file, production_records>>

InitStatus ==
  /\ pc = "merged"
  /\ plan_df = <<>>
  /\ results_df = <<>>
  /\ master_df = <<>>
  /\ name_master = NoAliases
  /\ best_master_rows = <<>>
  /\ cleaned_plan_df = <<>>
  /\ merged_df \in {[plan_cols |-> TRUE, rows |-> <<r>>] : r \in StatusRows}
  /\ final_df = <<>>
  /\ raised = "none"
  /\ nows = <<>>
  /\ timeline_df = <<>>
  /\ original_text = NoName
  /\ normalized = <<>>
  /\ NotLoading

NextStatus ==
  \/ CalculateDifferencesAndStatus
  \/ Reclassify

SpecStatus == InitStatus /\ [][NextStatus]_vars

Classified == pc = "classified"

\* the status table of the specification
StatusTable(row, now) ==
  LET has_plan == row.start # NaT
      has_actual_start == row.actual_start # NaT
      has_actual_end == row.actual_end # NaT
      now_past_end == row.end # NaT /\ now > row.end
      ended_past_end == row.end # NaT /\ row.actual_end > row.end
  IN CASE has_plan /\ ~has_actual_start ->
            (IF now_past_end THEN "delayed-not-started" ELSE "not-started")
       [] has_plan /\ has_actual_start /\ ~has_actual_end ->
            (IF now_past_end THEN "delayed-in-progress" ELSE "in-progress")
       [] has_plan /\ has_actual_start /\ has_actual_end ->
            (IF ended_past_end THEN "completed-late" ELSE "completed")
       [] ~has_plan /\ has_actual_start -> "unplanned"
       [] ~has_plan /\ ~has_actual_start -> "none"

\* C12: the status of every classified record is the one the status table
\* gives for its plan, its actual start and end and the instant of the
\* call, both comparisons strict.
C12_StatusTable ==
  Classified =>
    \A i \in 1..Len(final_df) :
      final_df[i].status = StatusTable(merged_df.rows[i], nows[i])

\* C12 witness: a planned record without actual start classified at the
\* very instant of its planned end is not-started, and a record that ended
\* at its planned end is completed.
C12_Witness ==
  /\ Classified
  /\ Len(final_df) = 1
  /\ nows[1] = final_df[1].end
  /\ \/ final_df[1].status = "not-started"
     \/ final_df[1].actual_end = final_df[1].end /\ final_df[1].status = "completed"

\* C13: when a record is classified again at a later instant, its status is
\* unchanged or goes from not-started to delayed-not-started or from
\* in-progress to delayed-in-progress; completed, completed-late, unplanned
\* and the delayed statuses stay.
C13_StatusOverTime ==
  [][(Classified /\ pc' = "classified") =>
       \A i \in 1..Len(final_df) :
         \/ final_df'[i].status = final_df[i].status
         \/ final_df[i].status = "not-started" /\ final_df'[i].status = "delayed-not-started"
         \/ final_df[i].status = "in-progress" /\ final_df'[i].status = "delayed-in-progress"]_vars

\* C13 witness: a record classified again after its planned end (620 is an
\* instant of the later calls only) is delayed.
C13_Witness ==
  /\ Classified
  /\ nows = <<620>>
  /\ final_df[1].status \in {"delayed-not-started", "delayed-in-progress"}

----------------------------------------------------------------------------
(* calculate_differences_and_status on the merged frame *)

SamePlanAndActual(r1, r2) ==
  /\ r1.start = r2.start /\ r1.end = r2.end /\ r1.qty = r2.qty
  /\ r1.actual_start = r2.actual_start /\ r1.actual_end = r2.actual_end
  /\ r1.actual_qty = r2.actual_qty /\ r1.duration = r2.duration

\* C14 as claimed: within one classification every record is classified
\* against the same instant, so two records with the same plan and actual
\* fields get the same status.
C14_OneInstant ==
  Classified =>
    /\ \A i, j \in 1..Len(nows) : nows[i] = nows[j]
    /\ \A i, j \in 1..Len(final_df) :
         SamePlanAndActual(final_df[i], final_df[j]) => final_df[i].status = final_df[j].status

\* the planned duration of the specification: 0 without a complete interval
PlannedDurationOrZero(row) ==
  IF row.start # NaT /\ row.end # NaT THEN row.end - row.start ELSE 0

\* C15 as claimed: the duration delta of every record is its actual
\* duration (0 if absent) less its planned duration (0 without a complete
\* plan interval), and is never null.
C15_DurationDelta ==
  (pc \in {"classified", "done"}) =>
    \A r \in 1..Len(final_df) :
      /\ final_df[r].duration_delta # NaN
      /\ final_df[r].duration_delta =
           OrZero(final_df[r].duration) - PlannedDurationOrZero(final_df[r])

\* what holds of the code: the delta is as claimed for a record with a
\* complete plan interval and null for every other record
C15_DeltaNullWithoutPlan ==
  (pc \in {"classified", "done"}) =>
    \A r \in 1..Len(final_df) :
      IF CompletePlan(final_df[r])
      THEN final_df[r].duration_delta =
             OrZero(final_df[r].duration) - (final_df[r].end - final_df[r].start)
      ELSE final_df[r].duration_delta = NaN

----------------------------------------------------------------------------
(* progress_logic.create_timeline_dataframe *)

\* pd.date_range("08:30", "17:01", freq="15min"): the slot starts, in minutes
TimelineFirst == 510
TimelineLast == 1020
SlotMinutes == 15

time_slots ==
  [i \in 1..((TimelineLast - TimelineFirst) \div SlotMinutes + 1) |->
     TimelineFirst + (i - 1) * SlotMinutes]

\* df.fillna({col: 'N/A' ...}) on the three index columns
NA == <<"N", "/", "A">>
FillNA(x) == IF IsStr(x) THEN x ELSE NA

\* the MultiIndex entry of a row: key_cols = ['担当設備', 'お客様名', '商品名']
TimelineIndex(row) == <<FillNA(row.line), FillNA(row.customer), FillNA(row.product)>>

IndexLess(k1, k2) == KeyLess(<<SelectedDate>> \o k1, <<SelectedDate>> \o k2)

\* the rows shown: a complete plan interval or at least one session
IsShown(row) ==
  (row.start # NaT /\ row.end # NaT) \/ Len(row.session_starts) > 0

\* start < slot_end and end > slot_start
Overlaps(st, en, slot_start) == st < slot_start + SlotMinutes /\ en > slot_start

\* 1. the plan of a row is plotted
PlotPlan(cells, row) ==
  IF row.start # NaT /\ row.end # NaT
  THEN [i \in 1..Len(cells) |->
          IF Overlaps(row.start, row.end, time_slots[i]) THEN "planned" ELSE cells[i]]
  ELSE cells

\* variant: a slot starting at the planned end is still within the plan
PlotSession_StrictOverrun(cells, row, session_start, session_end) ==
  IF session_start # NaT /\ session_end # NaT
  THEN [i \in 1..Len(cells) |->
          IF Overlaps(session_start, session_end, time_slots[i])
          THEN (IF row.end # NaT /\ time_slots[i] > row.end
                THEN "actual-overrun" ELSE "actual-within-plan")
          ELSE cells[i]]
  ELSE cells

\* 2. one session of a row is plotted over what is there
PlotSession(cells, row, session_start, session_end) ==
  IF session_start # NaT /\ session_end # NaT
  THEN [i \in 1..Len(cells) |->
          IF Overlaps(session_start, session_end, time_slots[i])
          THEN (IF row.end # NaT /\ time_slots[i] >= row.end
                THEN "actual-overrun" ELSE "actual-within-plan")
          ELSE cells[i]]
  ELSE cells

RECURSIVE PlotSessions(_, _, _)
\* zip(starts, ends), from the j-th pair on
PlotSessions(cells, row, j) ==
  IF j > Len(row.session_starts) \/ j > Len(row.session_ends) THEN cells
  ELSE PlotSessions(PlotSession(cells, row, row.session_starts[j], row.session_ends[j]),
                    row, j + 1)

RECURSIVE PlotRows(_, _, _, _)
\* the loop over df.iterrows() as seen from the matrix rows of index idx:
\* timeline_df.loc[idx, label] = ... writes every matrix row of that index
PlotRows(cells, df, n, idx) ==
  IF n > Len(df) THEN cells
  ELSE PlotRows(IF TimelineIndex(df[n]) = idx
                THEN PlotSessions(PlotPlan(cells, df[n]), df[n], 1)
                ELSE cells,
                df, n + 1, idx)

EmptyCells == [i \in 1..Len(time_slots) |-> ""]

\* the matrix for the sorted frame df: per row its index, the record of df at
\* that position and its cells
create_timeline_dataframe(df) ==
  [r \in 1..Len(df) |->
     [idx |-> TimelineIndex(df[r]), row |-> df[r],
      cells |-> PlotRows(EmptyCells, df, 1, TimelineIndex(df[r]))]]

\* df.sort_index(): the orders of the shown rows that are sorted by index
SortedOrders(rows) ==
  LET n == Len(rows)
      perms == {f \in [1..n -> 1..n] : \A i, j \in 1..n : i # j => f[i] # f[j]}
      sorted == {f \in perms :
                   \A i, j \in 1..n :
                     i < j => ~IndexLess(TimelineIndex(rows[f[j]]), TimelineIndex(rows[f[i]]))}
  IN {[i \in 1..n |-> rows[f[i]]] : f \in sorted}

\* the timeline of the returned frame
CreateTimeline ==
  /\ pc = "done"
  /\ LET shown == FilterSeq(final_df, {i \in 1..Len(final_df) : IsShown(final_df[i])})
     IN \E df \in SortedOrders(shown) : timeline_df' = create_timeline_dataframe(df)
  /\ pc' = "timeline"
  /\ UNCHANGED <<plan_df, results_df, master_df, name_master, best_master_rows,
                 cleaned_plan_df, merged_df, final_df, raised, nows,
                 original_text, normalized,
                 temp_file_path, temp_file, production_records>>

\* create_progress_table followed by create_timeline_dataframe, on plan
\* intervals and sessions placed around the slot boundaries 09:00 and 10:00

MaxTimelinePlan == 2
MaxTimelineResults == 1

\* a usual interval, one inside a slot, one ending at a slot start, one of
\* zero length and a reversed one
TimelineIntervals == {<<540, 600>>, <<545, 550>>, <<525, 540>>, <<550, 550>>, <<552, 547>>}

TimelinePlanRows ==
  {PlanRow(L1, <<"c">>, <<"A">>, iv[1], iv[2], 100) : iv \in TimelineIntervals}

TimelineSessionLists ==
  {<<>>, <<Session(545, 590)>>, <<Session(570, 615)>>, <<Session(550, 550)>>,
   <<Session(553, 548)>>}

TimelineRawRows ==
  [line : {L1}, customer : {<<"c">>}, product : {<<"A">>, <<"a">>},
   qty : {95}, sessions : TimelineSessionLists]

InitTimeline ==
  /\ plan_df \in BoundedSeq(TimelinePlanRows, MaxTimelinePlan)
  /\ results_df \in BoundedSeq({LoadedResultRow(raw) : raw \in TimelineRawRows},
                               MaxTimelineResults)
  /\ master_df = <<>>
  /\ name_master = NoAliases
  /\ InitWork

NextTimeline ==
  \/ CleanPlanWithMaster
  \/ MergePlanAndResults
  \/ ClassifyRaises
  \/ CalculateDifferencesAndStatus
  \/ FilterRows
  \/ ReturnEmpty
  \/ CreateTimeline

SpecTimeline == InitTimeline /\ [][NextTimeline]_vars

----------------------------------------------------------------------------
(* The timeline matrix *)

TimelineDone == pc = "timeline"

\* [st, en) meets the slot [slot_start, slot_start + 15): half-open intervals,
\* so an interval with st >= en meets nothing
Intersects(st, en, slot_start) ==
  st < en /\ st < slot_start + SlotMinutes /\ en > slot_start

\* some session of the record meets the slot
SessionIn(row, k) ==
  \E j \in 1..Len(row.session_starts) :
    Intersects(row.session_starts[j], row.session_ends[j], time_slots[k])

ActualCell(row, k) ==
  IF row.end # NaT /\ time_slots[k] >= row.end
  THEN "actual-overrun" ELSE "actual-within-plan"

\* C16 as claimed: for every shown record and every slot met by one of its
\* sessions, the cell is actual-overrun when planned_end is known and the
\* slot starts at or after it, and actual-within-plan otherwise.
C16_ActualOverridesPlanned ==
  TimelineDone =>
    \A r \in 1..Len(timeline_df), k \in 1..Len(time_slots) :
      SessionIn(timeline_df[r].row, k) =>
        timeline_df[r].cells[k] = ActualCell(timeline_df[r].row, k)

\* no two shown records have the same index (line, customer, product)
UniqueIndex ==
  \A r1, r2 \in 1..Len(timeline_df) :
    timeline_df[r1].idx = timeline_df[r2].idx => r1 = r2

\* what holds of the code: the same, when no two shown records share an index
C16_ActualOverridesPlannedUniqueIndex ==
  (TimelineDone /\ UniqueIndex) =>
    \A r \in 1..Len(timeline_df), k \in 1..Len(time_slots) :
      SessionIn(timeline_df[r].row, k) =>
        timeline_df[r].cells[k] = ActualCell(timeline_df[r].row, k)

\* C17 as claimed: for every shown record and every slot met by none of its
\* sessions, the cell is planned exactly when [planned_start, planned_end)
\* meets the slot, and empty otherwise.
C17_PlannedMarking ==
  TimelineDone =>
    \A r \in 1..Len(timeline_df), k \in 1..Len(time_slots) :
      LET row == timeline_df[r].row
      IN ~SessionIn(row, k) =>
           timeline_df[r].cells[k] =
             (IF row.start # NaT /\ row.end # NaT
                 /\ Intersects(row.start, row.end, time_slots[k])
              THEN "planned" ELSE "")

Degenerate(st, en) == st # NaT /\ en # NaT /\ st >= en

\* what holds of the code: the same, when no two shown records share an
\* index and no plan interval or session has start >= end
C17_PlannedMarkingProperIntervals ==
  (/\ TimelineDone
   /\ UniqueIndex
   /\ \A r \in 1..Len(timeline_df) :
        LET row == timeline_df[r].row
        IN /\ ~Degenerate(row.start, row.end)
           /\ \A j \in 1..Len(row.session_starts) :
                ~Degenerate(row.session_starts[j], row.session_ends[j])) =>
    \A r \in 1..Len(timeline_df), k \in 1..Len(time_slots) :
      LET row == timeline_df[r].row
      IN ~SessionIn(row, k) =>
           timeline_df[r].cells[k] =
             (IF row.start # NaT /\ row.end # NaT
                 /\ Intersects(row.start, row.end, time_slots[k])
              THEN "planned" ELSE "")

\* C18 as claimed: when every plan interval and every session shown has
\* start = end or start > end, no cell of the matrix is marked.
C18_DegenerateNeverMarks ==
  (/\ TimelineDone
   /\ \A r \in 1..Len(timeline_df) :
        LET row == timeline_df[r].row
        IN /\ row.start # NaT => Degenerate(row.start, row.end)
           /\ \A j \in 1..Len(row.session_starts) :
                Degenerate(row.session_starts[j], row.session_ends[j])) =>
    \A r \in 1..Len(timeline_df), k \in 1..Len(time_slots) :
      timeline_df[r].cells[k] = ""

----------------------------------------------------------------------------
(* find_best_match and get_match_score, through apply_name_matching on one  *)
(* plan record whose customer is the label                                  *)

MaxAliasEntries == 2

\* labels: empty, missing, contained in a name, equal to a name after
\* normalization, unrelated
MatchLabels ==
  {<<>>, NoName, <<"a">>, <<"a", "b">>, <<"FwA", "-", "b">>, <<"c">>}

MatchCanonicalNames ==
  {<<"a", "b">>, <<"a", "a", "a", "a", "a">>, <<"c">>, <<"-">>}

MatchAliasLists == {<<>>, <<<<"a">>>>, <<<<"A", "b">>>>}

AliasEntries == {Alias(n, as) : n \in MatchCanonicalNames, as \in MatchAliasLists}

\* a dict has each canonical name once
MatchTables ==
  {t \in BoundedSeq(AliasEntries, MaxAliasEntries) :
     \A i, j \in 1..Len(t) : t[i].name = t[j].name => i = j}

InitMatch ==
  /\ plan_df \in {<<PlanRow(L1, label, <<"a">>, 540, 600, 100)>> : label \in MatchLabels}
  /\ results_df = <<>>
  /\ master_df = <<>>
  /\ name_master \in {[customer |-> t, product |-> <<>>] : t \in MatchTables}
  /\ InitWork

NextMatch == CleanPlanWithMaster

SpecMatch == InitMatch /\ [][NextMatch]_vars

MatchDone == pc = "cleaned" /\ Len(cleaned_plan_df) = 1

Label == plan_df[1].customer
Table == name_master.customer
MatchResult ==
  [match |-> cleaned_plan_df[1].canon_customer, score |-> cleaned_plan_df[1].customer_score]

SetMax(S) == CHOOSE x \in S : \A y \in S : y <= x

\* the best score of one canonical name: its own name or one of its aliases
EntryScore(i) ==
  SetMax({get_match_score(normalize_text(Label), normalize_text(t)) :
            t \in {Table[i].name} \cup Range(Table[i].aliases)})

BestScore == SetMax({EntryScore(i) : i \in 1..Len(Table)})

FirstBest == CHOOSE i \in 1..Len(Table) :
               EntryScore(i) = BestScore /\ \A j \in 1..(i - 1) : EntryScore(j) < BestScore

\* C19: find_best_match gives (none, 0) for an empty label or alias table
\* and when the maximum score is 0; otherwise the maximum score and the
\* first canonical name, in table order, that attains it by its own name
\* or by an alias.
C19_FindBestMatch ==
  MatchDone =>
    IF Label = <<>> \/ Label = NoName \/ Table = <<>>
    THEN MatchResult = [match |-> NoName, score |-> 0]
    ELSE IF BestScore = 0
    THEN MatchResult = [match |-> NoName, score |-> 0]
    ELSE MatchResult = [match |-> Table[FirstBest].name, score |-> BestScore]

\* C19 witness: two canonical names attain the maximum, the second by an
\* alias, and the first is returned.
C19_Witness ==
  /\ MatchDone
  /\ Len(Table) = 2
  /\ BestScore > 0
  /\ EntryScore(1) = BestScore
  /\ EntryScore(2) = BestScore
  /\ MatchResult.match = Table[1].name
  /\ MatchResult.score = BestScore

\* the score of the specification, with an exact floor
ClaimedMatchScore(a, b) ==
  IF a = <<>> \/ b = <<>> THEN 0
  ELSE IF a = b THEN 100
  ELSE IF IsSubstring(a, b) \/ IsSubstring(b, a)
       THEN 85 + (15 * (Max(Len(a), Len(b)) - Abs(Len(a) - Len(b)))) \div Max(Len(a), Len(b))
       ELSE 0

\* the label is compared with one canonical name that has no alias
OneComparison == MatchDone /\ Len(Table) = 1 /\ Table[1].aliases = <<>>

\* C20 as claimed: the score of two normalized strings is 0 if either is
\* empty, 100 if they are equal, 85 + floor(15 * (1 - |len a - len b| /
\* max(len a, len b))) if one contains the other, and 0 otherwise.
C20_MatchScoreValue ==
  OneComparison =>
    MatchResult.score =
      ClaimedMatchScore(normalize_text(Label), normalize_text(Table[1].name))

\* what holds of the code: the score is 0, 100 or in 85..99, with 100 for
\* equal strings only, 85..99 for proper containment only
C20_MatchScoreOrdering ==
  OneComparison =>
    LET a == normalize_text(Label)
        b == normalize_text(Table[1].name)
        score == MatchResult.score
    IN /\ score \in 0..100
       /\ (a = <<>> \/ b = <<>>) => score = 0
       /\ (a # <<>> /\ a = b) <=> score = 100
       /\ (a # <<>> /\ b # <<>> /\ a # b /\ (IsSubstring(a, b) \/ IsSubstring(b, a)))
            <=> score \in 85..99

----------------------------------------------------------------------------
(* normalize_text applied to its own result *)

MaxTextLen == 3

\* an upper-case, a lower-case and a full-width letter, removed symbols, a
\* legal-entity character and a combining mark
TextChars == {"a", "A", "FwA", "b", "-", " ", "Kabu", "Acute"}

\* str arguments, and one argument that is not a str (None, a float)
TextInputs == BoundedSeq(TextChars, MaxTextLen) \cup {NoName}

\* normalized_x, _ = normalize_text(x) on the argument, then on each result
NormalizeText ==
  /\ pc = "normalize"
  /\ Len(normalized) < 2
  /\ normalized' =
       Append(normalized,
              normalize_text(IF normalized = <<>> THEN original_text
                             ELSE normalized[Len(normalized)]))
  /\ UNCHANGED <<pc, plan_df, results_df, master_df, name_master, best_master_rows,
                 cleaned_plan_df, merged_df, final_df, raised, nows, timeline_df, original_text,
                 temp_file_path, temp_file, production_records>>

InitNormalize ==
  /\ pc = "normalize"
  /\ plan_df = <<>>
  /\ results_df = <<>>
  /\ master_df = <<>>
  /\ name_master = NoAliases
  /\ best_master_rows = <<>>
  /\ cleaned_plan_df = <<>>
  /\ merged_df = [plan_cols |-> FALSE, rows |-> <<>>]
  /\ final_df = <<>>
  /\ raised = "none"
  /\ nows = <<>>
  /\ timeline_df = <<>>
  /\ original_text \in TextInputs
  /\ normalized = <<>>
  /\ NotLoading

NextNormalize == NormalizeText

SpecNormalize == InitNormalize /\ [][NextNormalize]_vars

NormalizedTwice == pc = "normalize" /\ Len(normalized) = 2

\* C21 as claimed: normalizing the result of a normalization changes nothing,
\* normalize_text(normalize_text(x)) = normalize_text(x) for every argument x,
\* and an argument that is not a string gives the empty string.
C21_Idempotent ==
  /\ NormalizedTwice => normalized[2] = normalized[1]
  /\ (pc = "normalize" /\ Len(normalized) >= 1 /\ ~IsStr(original_text)) => normalized[1] = <<>>

\* what holds of the code: an argument that is not a string gives the empty
\* string, twice over
C21_NonStringEmpty ==
  (NormalizedTwice /\ ~IsStr(original_text)) => normalized = <<<<>>, <<>>>>

\* what holds of the code: the second normalization changes nothing when the
\* argument has no combining mark
C21_IdempotentWithoutCombiningMark ==
  (NormalizedTwice /\ IsStr(original_text) /\ "Acute" \notin Range(original_text)) =>
    normalized[2] = normalized[1]

\* the second normalization composes a letter and a mark that a removed
\* character kept apart in the argument
C21_Recomposed ==
  /\ NormalizedTwice
  /\ original_text = <<"a", " ", "Acute">>
  /\ normalized = << <<"a", "Acute">>, <<"aAcute">> >>

----------------------------------------------------------------------------
(* create_progress_table and create_timeline_dataframe on one plan record,  *)
(* one catalog record and one actual record of the same product             *)

MaxScenarioRows == 1

WidgetX == <<"W", "-", "X">>
FullWidthCustomer == <<"FwA", "FwB">>
HalfWidthCustomer == <<"A", "B">>

ScenarioPlanRows ==
  {PlanRow(L1, c, WidgetX, 540, en, q) :
     c \in {FullWidthCustomer, HalfWidthCustomer}, en \in {600, 630}, q \in {100, 90}}

ScenarioCatalogs ==
  {<<>>, <<[line |-> L1, customer |-> HalfWidthCustomer, product |-> WidgetX]>>}

ScenarioRawRows ==
  [line : {L1}, customer : {HalfWidthCustomer}, product : {WidgetX},
   qty : {95, 100}, sessions : {<<Session(550, 620)>>, <<Session(550, 590)>>}]

InitScenario ==
  /\ plan_df \in BoundedSeq(ScenarioPlanRows, MaxScenarioRows)
  /\ results_df \in BoundedSeq({LoadedResultRow(raw) : raw \in ScenarioRawRows},
                               MaxScenarioRows)
  /\ master_df \in ScenarioCatalogs
  /\ name_master = NoAliases
  /\ InitWork

NextScenario ==
  \/ CleanPlanWithMaster
  \/ MergePlanAndResults
  \/ ClassifyRaises
  \/ CalculateDifferencesAndStatus
  \/ FilterRows
  \/ ReturnEmpty
  \/ CreateTimeline

SpecScenario == InitScenario /\ [][NextScenario]_vars

\* plan L1 / full-width customer / Widget-X 09:00-10:00 quantity 100, catalog
\* L1 / half-width customer / Widget-X, no alias, actual L1 / half-width
\* customer / Widget-X with the session 09:10-10:20 and quantity 95
TheScenario ==
  /\ plan_df = <<PlanRow(L1, FullWidthCustomer, WidgetX, 540, 600, 100)>>
  /\ master_df = <<[line |-> L1, customer |-> HalfWidthCustomer, product |-> WidgetX]>>
  /\ name_master = NoAliases
  /\ results_df = <<LoadedResultRow([line |-> L1, customer |-> HalfWidthCustomer,
                                     product |-> WidgetX, qty |-> 95,
                                     sessions |-> <<Session(550, 620)>>])>>

ScenarioCell(slot_start) ==
  IF slot_start \in {540, 555, 570, 585} THEN "actual-within-plan"
  ELSE IF slot_start \in {600, 615} THEN "actual-overrun"
  ELSE ""

\* C22: in the scenario the plan record is cleaned to the catalog spelling of
\* the customer, the merge gives exactly one record, its quantity delta is -5
\* and its status completed-late, and its timeline row has the slots 09:00 to
\* 09:45 actual-within-plan, the slots 10:00 and 10:15 actual-overrun and every
\* other slot empty.
C22_Scenario ==
  TheScenario =>
    /\ Cleaned => /\ Len(cleaned_plan_df) = 1
                  /\ cleaned_plan_df[1].customer = HalfWidthCustomer
    /\ Merged => /\ Len(merged_df.rows) = 1
                 /\ merged_df.rows[1].customer = HalfWidthCustomer
    /\ (pc \in {"classified", "done", "timeline"}) =>
         /\ Len(final_df) = 1
         /\ final_df[1].customer = HalfWidthCustomer
         /\ final_df[1].quantity_delta = -5
         /\ final_df[1].status = "completed-late"
    /\ pc # "raised"
    /\ TimelineDone =>
         /\ Len(timeline_df) = 1
         /\ \A k \in 1..Len(time_slots) :
              timeline_df[1].cells[k] = ScenarioCell(time_slots[k])

\* the scenario has run to its timeline, which has overrun slots
C22_Witness ==
  /\ TheScenario
  /\ TimelineDone
  /\ Len(timeline_df) = 1
  /\ \E k \in 1..Len(time_slots) : timeline_df[1].cells[k] = "actual-overrun"
  /\ final_df[1].status = "completed-late"

----------------------------------------------------------------------------
(* data_loader.load_results_data, followed by create_progress_table *)

MaxSheetRows == 2
MaxLoadPlan == 1

\* a startTime / endTime text that is not a time of day: pd.to_datetime raises
BadTime == -77777

\* the day before the selected date: the extractor is asked for both days
DayBefore == SelectedDate - 1

\* editSessions of one sheet row: none, one complete session, one without its
\* endTime, one without its startTime, a complete one after an incomplete one,
\* one whose endTime cannot be parsed
SheetSessionLists ==
  {<<>>, <<Session(550, 620)>>, <<Session(550, NaT)>>, <<Session(NaT, 620)>>,
   <<Session(540, NaT), Session(550, 590)>>, <<Session(550, BadTime)>>}

SheetRows ==
  [date : {SelectedDate, DayBefore}, line : {L1}, customer : {<<"c">>},
   product : {<<"A">>}, qty : {95}, sessions : SheetSessionLists]

LoadPlanRows == {PlanRow(L1, <<"c">>, <<"A">>, 540, 600, 100)}

\* if temp_file_path and Path(temp_file_path).exists(): Path(temp_file_path).unlink()
Unlinked(path, file) == IF path # "None" /\ file # "absent" THEN "absent" ELSE file

\* the except branch of the row loop: no times, no duration, no sessions
UnparsedResultRow(row) ==
  [date |-> row.date, line |-> row.line,
   customer |-> row.customer, product |-> row.product,
   actual_qty |-> row.qty,
   actual_start |-> NaT, actual_end |-> NaT, duration |-> 0,
   session_starts |-> <<>>, session_ends |-> <<>>]

\* one pass of the row loop: a session with both times is parsed, and a time
\* that cannot be parsed raises ValueError for the whole row
MappedResultRow(row) ==
  IF \E i \in 1..Len(row.sessions) :
       /\ row.sessions[i].s # NaT /\ row.sessions[i].e # NaT
       /\ BadTime \in {row.sessions[i].s, row.sessions[i].e}
  THEN UnparsedResultRow(row)
  ELSE LoadedResultRow(row)

\* df = df[df['date'] == date]
RowsOfDate(rows) == FilterSeq(rows, {i \in 1..Len(rows) : rows[i].date = SelectedDate})

\* what every return pd.DataFrame() of load_results_data leaves behind
ReturnsNoResults ==
  /\ results_df' = <<>>
  /\ pc' = "start"

\* 1. the extractor script is not where it should be
ScriptNotFound ==
  /\ pc = "load"
  /\ ReturnsNoResults
  /\ UNCHANGED <<plan_df, master_df, name_master, best_master_rows,
                 cleaned_plan_df, merged_df, final_df, raised, nows, timeline_df,
                 original_text, normalized,
                 temp_file_path, temp_file, production_records>>

\* 2. tempfile.NamedTemporaryFile(mode='w', delete=False, ...) creates the file
CreateTempFile ==
  /\ pc = "load"
  /\ temp_file' = "empty"
  /\ pc' = "temp_open"
  /\ UNCHANGED <<plan_df, results_df, master_df, name_master, best_master_rows,
                 cleaned_plan_df, merged_df, final_df, raised, nows, timeline_df,
                 original_text, normalized,
                 temp_file_path, production_records>>

\* json.dump(service_account_info, temp_file); temp_file_path = temp_file.name
DumpCredentials ==
  /\ pc = "temp_open"
  /\ temp_file' = "credentials"
  /\ temp_file_path' = "tmp.json"
  /\ pc' = "temp_written"
  /\ UNCHANGED <<plan_df, results_df, master_df, name_master, best_master_rows,
                 cleaned_plan_df, merged_df, final_df, raised, nows, timeline_df,
                 original_text, normalized,
                 production_records>>

\* json.dump raises: the with block closes the file, which holds what was
\* written so far, temp_file_path is still None, and the handler of the outer
\* try deletes the file of temp_file_path and returns
DumpRaises ==
  /\ pc = "temp_open"
  /\ \E written \in {"empty", "partial"} :
       temp_file' = Unlinked(temp_file_path, written)
  /\ ReturnsNoResults
  /\ UNCHANGED <<plan_df, master_df, name_master, best_master_rows,
                 cleaned_plan_df, merged_df, final_df, raised, nows, timeline_df,
                 original_text, normalized,
                 temp_file_path, production_records>>

\* subprocess.run returns 0; finally: the file is deleted
RunExtractor ==
  /\ pc = "temp_written"
  /\ temp_file' = Unlinked(temp_file_path, temp_file)
  /\ pc' = "extracted"
  /\ UNCHANGED <<plan_df, results_df, master_df, name_master, best_master_rows,
                 cleaned_plan_df, merged_df, final_df, raised, nows, timeline_df,
                 original_text, normalized,
                 temp_file_path, production_records>>

\* subprocess.run returns a non-zero code: return inside the inner try, whose
\* finally deletes the file
ExtractorFails ==
  /\ pc = "temp_written"
  /\ temp_file' = Unlinked(temp_file_path, temp_file)
  /\ ReturnsNoResults
  /\ UNCHANGED <<plan_df, master_df, name_master, best_master_rows,
                 cleaned_plan_df, merged_df, final_df, raised, nows, timeline_df,
                 original_text, normalized,
                 temp_file_path, production_records>>

\* st.info or subprocess.run raises: finally deletes the file, then the handler
\* of the outer try finds nothing left to delete and returns
LaunchRaises ==
  /\ pc = "temp_written"
  /\ temp_file' = Unlinked(temp_file_path, Unlinked(temp_file_path, temp_file))
  /\ ReturnsNoResults
  /\ UNCHANGED <<plan_df, master_df, name_master, best_master_rows,
                 cleaned_plan_df, merged_df, final_df, raised, nows, timeline_df,
                 original_text, normalized,
                 temp_file_path, production_records>>

\* 3. the generated Excel file is missing or cannot be read
NoExcel ==
  /\ pc = "extracted"
  /\ ReturnsNoResults
  /\ UNCHANGED <<plan_df, master_df, name_master, best_master_rows,
                 cleaned_plan_df, merged_df, final_df, raised, nows, timeline_df,
                 original_text, normalized,
                 temp_file_path, temp_file, production_records>>

\* 3. and 4. the sheet is read, filtered to the selected date and mapped row
\* by row; an empty sheet or no row of the date gives an empty frame
ReadExcel ==
  /\ pc = "extracted"
  /\ LET df == RowsOfDate(production_records)
     IN results_df' = [i \in 1..Len(df) |-> MappedResultRow(df[i])]
  /\ pc' = "start"
  /\ UNCHANGED <<plan_df, master_df, name_master, best_master_rows,
                 cleaned_plan_df, merged_df, final_df, raised, nows, timeline_df,
                 original_text, normalized,
                 temp_file_path, temp_file, production_records>>

InitLoad ==
  /\ pc = "load"
  /\ plan_df \in BoundedSeq(LoadPlanRows, MaxLoadPlan)
  /\ results_df = <<>>
  /\ master_df = <<>>
  /\ name_master = NoAliases
  /\ best_master_rows = <<>>
  /\ cleaned_plan_df = <<>>
  /\ merged_df = [plan_cols |-> FALSE, rows |-> <<>>]
  /\ final_df = <<>>
  /\ raised = "none"
  /\ nows = <<>>
  /\ timeline_df = <<>>
  /\ original_text = NoName
  /\ normalized = <<>>
  /\ temp_file_path = "None"
  /\ temp_file = "absent"
  /\ production_records \in BoundedSeq(SheetRows, MaxSheetRows)

NextLoad ==
  \/ ScriptNotFound
  \/ CreateTempFile
  \/ DumpCredentials
  \/ DumpRaises
  \/ RunExtractor
  \/ ExtractorFails
  \/ LaunchRaises
  \/ NoExcel
  \/ ReadExcel
  \/ CleanPlanWithMaster
  \/ MergePlanAndResults
  \/ ClassifyRaises
  \/ CalculateDifferencesAndStatus
  \/ FilterRows
  \/ ReturnEmpty

SpecLoad == InitLoad /\ [][NextLoad]_vars

\* load_results_data has returned
LoadReturned == pc \notin {"load", "temp_open", "temp_written", "extracted"}

\* C23: whenever load_results_data has returned, by whatever path, the
\* credentials temp file it created is no longer on disk.
C23_TempFileDeleted ==
  LoadReturned => temp_file = "absent"

\* what holds of the code: once the path of the file has been bound to
\* temp_file_path, the file is gone when load_results_data has returned
C23_DeletedOncePathBound ==
  (LoadReturned /\ temp_file_path # "None") => temp_file = "absent"

\* json.dump has raised and load_results_data has returned, the file remains
C23_LeftBehind ==
  /\ LoadReturned
  /\ temp_file_path = "None"
  /\ temp_file = "partial"

----------------------------------------------------------------------------
(* Actual quantities and durations across the merge *)

ActualQuantities(rows) == SeqSum([i \in 1..Len(rows) |-> OrZero(rows[i].actual_qty)])
ActualDurations(rows) == SeqSum([i \in 1..Len(rows) |-> OrZero(rows[i].duration)])

\* C24: after the merge the actual quantities of the merged records add up to
\* the quantities of the actual records, and so do the durations: every actual
\* record is counted in exactly one merged record, also when two plan records
\* carry the same key.
C24_NoDoubleCounting ==
  Merged =>
    /\ ActualQuantities(merged_df.rows) = ActualQuantities(results_df)
    /\ ActualDurations(merged_df.rows) = ActualDurations(results_df)

AllFullKeys == \A j \in 1..Len(results_df) : HasFullKey(results_df[j])

DistinctPlanKeys ==
  \A i, j \in 1..Len(cleaned_plan_df) :
    PlanKey(cleaned_plan_df[i]) = PlanKey(cleaned_plan_df[j]) => i = j

\* the claim fails on two plan records of one key also when no actual record
\* lacks a key field
C24_NoDoubleCountingOfFullKeys ==
  (Merged /\ AllFullKeys) =>
    /\ ActualQuantities(merged_df.rows) = ActualQuantities(results_df)
    /\ ActualDurations(merged_df.rows) = ActualDurations(results_df)

\* what holds of the code: the sums agree when the plan keys are distinct and
\* no actual record lacks a key field
C24_NoDoubleCountingOfDistinctPlanKeys ==
  (Merged /\ AllFullKeys /\ DistinctPlanKeys) =>
    /\ ActualQuantities(merged_df.rows) = ActualQuantities(results_df)
    /\ ActualDurations(merged_df.rows) = ActualDurations(results_df)

\* two raw plan records are cleaned to one key and the one actual record of
\* that key is counted in both merged records
C24_CountedTwice ==
  /\ Merged
  /\ Len(plan_df) = 2
  /\ Len(results_df) = 1
  /\ HasFullKey(results_df[1])
  /\ plan_df[1].customer # cleaned_plan_df[1].customer
  /\ Len(merged_df.rows) = 2
  /\ merged_df.rows[1].actual_qty = results_df[1].actual_qty
  /\ merged_df.rows[2].actual_qty = results_df[1].actual_qty
  /\ results_df[1].actual_qty > 0

----------------------------------------------------------------------------
(* The rows of the timeline matrix, one against the other *)

\* the cells of a record plotted on its own
OwnCells(row) == PlotSessions(PlotPlan(EmptyCells, row), row, 1)

\* the planned interval or a session of the record passes the overlap test
\* of the slot
Touches(row, k) ==
  \/ row.start # NaT /\ row.end # NaT /\ Overlaps(row.start, row.end, time_slots[k])
  \/ \E j \in 1..Len(row.session_starts) :
       /\ j <= Len(row.session_ends)
       /\ Overlaps(row.session_starts[j], row.session_ends[j], time_slots[k])

ActualMarks == {"actual-within-plan", "actual-overrun"}

\* C25: the matrix has one row per retained record, the cells of a row are
\* those of its own record's planned interval and sessions, a slot that no
\* interval of the record overlaps is empty in its row, and an actual mark of
\* the record is not overwritten by the marks of another record, also when two
\* retained records share line, customer and product.
C25_RowIndependence ==
  TimelineDone =>
    /\ Len(timeline_df) = Len(final_df)
    /\ \A r \in 1..Len(timeline_df) :
         /\ timeline_df[r].cells = OwnCells(timeline_df[r].row)
         /\ \A k \in 1..Len(time_slots) :
              /\ ~Touches(timeline_df[r].row, k) => timeline_df[r].cells[k] = ""
              /\ OwnCells(timeline_df[r].row)[k] \in ActualMarks =>
                   timeline_df[r].cells[k] = OwnCells(timeline_df[r].row)[k]

\* what holds of the code: the rows are independent when no two retained
\* records share line, customer and product
C25_RowIndependenceUniqueIndex ==
  (TimelineDone /\ UniqueIndex) =>
    /\ Len(timeline_df) = Len(final_df)
    /\ \A r \in 1..Len(timeline_df) :
         timeline_df[r].cells = OwnCells(timeline_df[r].row)

\* what holds of the code: the matrix has one row per retained record
C25_OneRowPerRecord ==
  TimelineDone => Len(timeline_df) = Len(final_df)

\* two retained records of one line, customer and product: the row of the
\* first shows a mark in a slot its record does not touch
C25_ForeignMark ==
  /\ TimelineDone
  /\ Len(timeline_df) = 2
  /\ timeline_df[1].idx = timeline_df[2].idx
  /\ \E k \in 1..Len(time_slots) :
       /\ ~Touches(timeline_df[1].row, k)
       /\ timeline_df[1].cells[k] # ""

\* two retained records of one line, customer and product: an actual mark of
\* one is overwritten by the other actual mark, written for the other record
C25_ActualOverwritten ==
  /\ TimelineDone
  /\ Len(timeline_df) = 2
  /\ timeline_df[1].idx = timeline_df[2].idx
  /\ \E r \in 1..2, k \in 1..Len(time_slots) :
       /\ OwnCells(timeline_df[r].row)[k] \in ActualMarks
       /\ timeline_df[r].cells[k] \in ActualMarks
       /\ timeline_df[r].cells[k] # OwnCells(timeline_df[r].row)[k]

----------------------------------------------------------------------------
(* Actual start and actual end from load_results_data to get_status *)

Paired(row) == (row.actual_start # NaT) <=> (row.actual_end # NaT)

InProgressStatuses == {"in-progress", "delayed-in-progress"}

\* C26: every actual record load_results_data builds has its actual start if
\* and only if it has its actual end, the aggregation of the merge keeps this
\* per key, and so no record of the pipeline load_results_data, merge,
\* classify has the status in-progress or delayed-in-progress.
C26_StartEndPaired ==
  /\ LoadReturned => \A j \in 1..Len(results_df) : Paired(results_df[j])
  /\ (LoadReturned /\ Merged) =>
       \A r \in 1..Len(merged_df.rows) : Paired(merged_df.rows[r])
  /\ (pc \in {"classified", "done"}) =>
       \A r \in 1..Len(final_df) : final_df[r].status \notin InProgressStatuses

\* C26 witness: the sheet held a session with a startTime and no endTime next
\* to a complete one, the record was built with both times and the planned
\* record of its key was classified as completed or completed-late.
C26_Witness ==
  /\ pc = "done"
  /\ Len(plan_df) = 1
  /\ Len(results_df) = 1
  /\ Len(production_records) >= 1
  /\ \E i \in 1..Len(production_records) :
       /\ production_records[i].date = SelectedDate
       /\ \E j \in 1..Len(production_records[i].sessions) :
            /\ production_records[i].sessions[j].s # NaT
            /\ production_records[i].sessions[j].e = NaT
  /\ results_df[1].actual_start = 550
  /\ results_df[1].actual_end = 590
  /\ Len(final_df) = 1
  /\ final_df[1].status \in {"completed", "completed-late"}

====
